---- MODULE Spec2Model ----
(***************************************************************************)
(* The resumable, checkpointed enrichment sweep of the GitHub crawler      *)
(* (src/代码/爬取GitHub信息.py): the input dataset, the state file          *)
(* last_processed_id.txt, the output log crawled_data.jsonl, and one       *)
(* sequential process that is started, may be killed at any step, and is   *)
(* started again. Behind it the scoring stage                              *)
(* (src/代码/计算github仓库的贡献度与活跃度.py), which reads the output log *)
(* and writes one scored record per record it read.                        *)
(***************************************************************************)
EXTENDS Integers, Sequences, FiniteSets, TLC

\* ------------------------------------------------------------------ bounds
MaxLines == 2
MaxRuns == 2
MaxFaults == 1

\* --------------------------------------------------------- program constants
ExitOk == 0
ExitUncaught == 1
MinParts == 2

VARIABLES
    inputFile,        \* INPUT_FILE: "missing", "unreadable", or its lines
    stateFile,        \* STATE_FILE: [kind, text]
    log,              \* OUTPUT_FILE: the sequence of appended records
    pc,               \* position of the process
    repos_to_crawl,   \* the loaded items
    warned,           \* the lines the loading printed a warning for
    start_index,
    i,                \* loop variable of the crawl loop
    repo_id,          \* <<>> while unbound, <<id>> once bound
    processed_count,
    result_data,
    step,             \* the fetch step (1..4) of the item in hand
    report,           \* what the resume detection printed
    exitStatus,       \* <<>> while running, <<status>> once the process ended
    run,              \* number of invocations so far
    dispatched,       \* indexes the current run entered the loop body with
    remoteCalls,      \* indexes the current run made a remote call for
    prevEnd,          \* how the previous invocation ended
    prevCleared,      \* the previous invocation removed the state file
    prevStart,        \* the resume offset of the previous invocation
    crashPc,          \* position of the process when it was killed last
    crashIdx,         \* loop index when it was killed last
    startFile,        \* the state file as this invocation found it
    fresh,            \* no state file existed before the first invocation
    afterAppend,      \* indexes whose run was killed between append and save
    failed,           \* <<index, step>> of the remote calls that raised in this run
    logMark,          \* length of the log when this invocation started
    completed,        \* an earlier invocation reached the end of the script
    faults,           \* number of remote calls that raised so far
    calls,            \* the remote calls and pacing sleeps of the running process
    fatal,            \* the start-up failure that stopped this invocation
    cleared,          \* this invocation removed the state file
    ownFile,          \* the state file holds what the crawler wrote into it
    spc,              \* position of the scoring stage
    df,               \* the rows pd.read_json made of the log
    index,            \* the row the scoring loop stands at
    scored_records,
    scoredFile        \* scored_data.jsonl: <<>> while absent or empty

vars == <<inputFile, stateFile, log, pc, repos_to_crawl, warned, start_index, i,
          repo_id, processed_count, result_data, step, report, exitStatus,
          run, dispatched, remoteCalls, prevEnd, prevCleared, prevStart,
          crashPc, crashIdx, startFile, fresh, afterAppend, failed, logMark,
          completed,
          faults, calls, fatal, cleared, ownFile, spc, df, index,
          scored_records, scoredFile>>

disk == <<inputFile, stateFile, log>>
loaded == <<repos_to_crawl, warned>>
history == <<prevEnd, prevCleared, prevStart, crashPc, crashIdx, startFile,
             fresh, afterAppend, logMark, completed>>
outcome == <<fatal, cleared, ownFile>>
scoring == <<spc, df, index, scored_records, scoredFile>>
ghost == <<history, faults, outcome>>

\* ------------------------------------------------------------------ text
Null == <<>>

Digits == <<"0", "1", "2", "3", "4", "5", "6", "7", "8", "9">>

DigitVal(c) == CHOOSE d \in 0..9 : Digits[d + 1] = c

IsDigit(c) == \E d \in 1..Len(Digits) : Digits[d] = c

IsSpace(c) == c \in {" ", "\n"}

\* str(n) of a natural number
RECURSIVE Str(_)
Str(n) == IF n < 10 THEN <<Digits[n + 1]>>
          ELSE Str(n \div 10) \o <<Digits[(n % 10) + 1]>>

\* s.strip(): leading and trailing whitespace removed
RECURSIVE LStrip(_)
LStrip(s) == IF s # <<>> /\ IsSpace(Head(s)) THEN LStrip(Tail(s)) ELSE s

RECURSIVE RStrip(_)
RStrip(s) == IF s # <<>> /\ IsSpace(s[Len(s)])
             THEN RStrip(SubSeq(s, 1, Len(s) - 1)) ELSE s

Strip(s) == RStrip(LStrip(s))

RECURSIVE DigitsValue(_)
DigitsValue(s) == IF s = <<>> THEN 0
                  ELSE 10 * DigitsValue(SubSeq(s, 1, Len(s) - 1))
                       + DigitVal(s[Len(s)])

\* int(text): <<value>>, or <<>> for ValueError
IntOf(s) == IF s # <<>> /\ \A k \in 1..Len(s) : IsDigit(s[k])
            THEN <<DigitsValue(s)>> ELSE <<>>

\* ------------------------------------------------------------ references
Slash == "/"
Host == "github.com"

RefRepo == <<"https:", Slash, Slash, Host, Slash, "acme", Slash, "widget">>
RefNotUrl == <<"not-a-url">>
RefBareHost == <<Host, Slash>>

Refs == {RefRepo, RefNotUrl, RefBareHost}

\* further shapes a reference of the dataset can have
RefTrailingSlash == RefRepo \o <<Slash>>
RefNoScheme == <<Host, Slash, "acme", Slash, "widget">>
RefDeepPath == RefRepo \o <<Slash, "tree", Slash, "main">>
RefOwnerOnly == <<"https:", Slash, Slash, Host, Slash, "acme">>
RefHostOnly == <<"https:", Slash, Slash, Host>>
RefOtherHost == <<"https:", Slash, Slash, "gitlab.com", Slash, "acme", Slash, "widget">>
RefHostInPath == <<"https:", Slash, Slash, "gitlab.com", Slash, Host, Slash, "widget">>
RefHostInHost ==
    <<"https:", Slash, Slash, "my", Host, ".cn", Slash, "acme", Slash, "widget">>

Catalogue ==
    Refs \cup {RefTrailingSlash, RefNoScheme, RefDeepPath, RefOwnerOnly,
               RefHostOnly, RefOtherHost, RefHostInPath, RefHostInHost}

\* s.strip('/')
RECURSIVE LStripSlash(_)
LStripSlash(s) == IF s # <<>> /\ Head(s) = Slash THEN LStripSlash(Tail(s)) ELSE s

RECURSIVE RStripSlash(_)
RStripSlash(s) == IF s # <<>> /\ s[Len(s)] = Slash
                  THEN RStripSlash(SubSeq(s, 1, Len(s) - 1)) ELSE s

StripSlash(s) == RStripSlash(LStripSlash(s))

\* s.split('/'): the segments between the slashes, empty ones included
RECURSIVE Split(_)
Split(s) ==
    IF \A k \in 1..Len(s) : s[k] # Slash THEN <<s>>
    ELSE LET p == CHOOSE k \in 1..Len(s) :
                      s[k] = Slash /\ \A j \in 1..(k - 1) : s[j] # Slash
         IN <<SubSeq(s, 1, p - 1)>> \o Split(SubSeq(s, p + 1, Len(s)))

\* 'github.com' in repo_url
HasHost(url) == \E k \in 1..Len(url) : url[k] = Host

Parts(url) == Split(StripSlash(url))

\* the two skip paths of the loop body
NotGithub(url) == ~HasHost(url)
Unparsable(url) == Len(Parts(url)) < MinParts
Skipped(url) == NotGithub(url) \/ Unparsable(url)

OwnerName(url) == Parts(url)[Len(Parts(url)) - 1]
RepoName(url) == Parts(url)[Len(Parts(url))]

\* --------------------------------------------------------------- dataset
\* the id the line at position k carries: unique, neither contiguous nor sorted
IdAt(k) == IF k % 2 = 1 THEN 10 + k ELSE k

\* what a line can be: an item with both fields, an item without the
\* reference, an item without the id, or text json.loads rejects
LinesAt(k) ==
    {[id |-> IdAt(k), url |-> u] : u \in Refs}
        \cup {[id |-> IdAt(k)], [url |-> RefRepo], [garbage |-> TRUE]}

InputFiles ==
    UNION {{f \in [1..n -> UNION {LinesAt(k) : k \in 1..n}] :
                \A k \in 1..n : f[k] \in LinesAt(k)} : n \in 0..MaxLines}

\* json.loads succeeds on the line
Parses(line) == "garbage" \notin DOMAIN line

HasId(item) == "id" \in DOMAIN item
HasUrl(item) == "url" \in DOMAIN item

\* the loading loop, ended by the first line json.loads rejects
RECURSIVE LoadLinesUntilBad(_)
LoadLinesUntilBad(f) ==
    IF f = <<>> \/ ~Parses(Head(f)) THEN <<>>
    ELSE <<Head(f)>> \o LoadLinesUntilBad(Tail(f))

\* the loading loop: the lines json.loads accepts, in input order
RECURSIVE LoadLines(_)
LoadLines(f) == IF f = <<>> THEN <<>>
                ELSE IF Parses(Head(f)) THEN <<Head(f)>> \o LoadLines(Tail(f))
                ELSE LoadLines(Tail(f))

\* the loading loop: the lines the handler of line 42 printed a warning for
RECURSIVE LoadWarnings(_)
LoadWarnings(f) == IF f = <<>> THEN <<>>
                   ELSE IF Parses(Head(f)) THEN LoadWarnings(Tail(f))
                   ELSE <<Head(f)>> \o LoadWarnings(Tail(f))

\* ------------------------------------------------------------ state file
Absent == [kind |-> "absent", text |-> <<>>]
Unreadable == [kind |-> "unreadable", text |-> <<>>]
Text(s) == [kind |-> "text", text |-> s]

Exists(sf) == sf.kind # "absent"

\* what an earlier use of the directory may have left: nothing, a file that
\* cannot be read, text that is no number, the id of the first line, an id of
\* no line
InitialStateFiles ==
    {Absent, Unreadable, Text(<<"x">>), Text(Str(IdAt(1)) \o <<"\n">>),
     Text(<<"5", "\n">>)}

\* ------------------------------------------------------------------ records
BlankData(id, url) ==
    [id |-> id, url |-> url,
     owner |-> OwnerName(url), repo_name |-> RepoName(url),
     stargazers_count |-> Null, forks_count |-> Null,
     open_issues_count |-> Null, created_at |-> Null, pushed_at |-> Null,
     contributor_list |-> <<>>, recent_commits_count |-> Null,
     total_commits_count |-> Null, error |-> Null]

NoData == [error |-> Null]

\* what the remote source answers for a repository, field by field
Remote(field, rd) == <<field, rd.owner, rd.repo_name>>

AfterStep(rd, k) ==
    IF k = 1 THEN
        [rd EXCEPT !.stargazers_count = Remote("stargazers_count", rd),
                   !.forks_count = Remote("forks_count", rd),
                   !.open_issues_count = Remote("open_issues_count", rd),
                   !.created_at = Remote("created_at", rd),
                   !.pushed_at = Remote("pushed_at", rd)]
    ELSE IF k = 2 THEN
        [rd EXCEPT !.contributor_list = Remote("contributors", rd)]
    ELSE IF k = 3 THEN
        [rd EXCEPT !.recent_commits_count = Remote("recent_commits", rd)]
    ELSE
        [rd EXCEPT !.total_commits_count = Remote("total_commits", rd)]

LastStep == 4

GithubError == <<"GitHub API error">>
UnknownError == <<"unknown error">>

\* --------------------------------------------------------- resume detection
\* the scan of lines 55-58: <<"found", i + 1>>, <<"none", 0>> when no item has
\* the id, <<"raise", 0>> when an item before a match has no id field
RECURSIVE Scan(_, _, _)
Scan(repos, last_id, k) ==
    IF k > Len(repos) THEN <<"none", 0>>
    ELSE IF ~HasId(repos[k]) THEN <<"raise", 0>>
    ELSE IF repos[k].id = last_id THEN <<"found", k>>
    ELSE Scan(repos, last_id, k + 1)

\* the scan with the offset left at the end of the list when no item matches
FindStartPastEnd(repos, last_id) ==
    IF Scan(repos, last_id, 1)[1] = "none" THEN <<"none", Len(repos)>>
    ELSE Scan(repos, last_id, 1)

FindStart(repos, last_id) == Scan(repos, last_id, 1)

\* lines 49-63 with a handler that catches nothing: <<next position, offset,
\* message>>
ResumeUncaught(sf, repos) ==
    IF ~Exists(sf) THEN <<"loop", 0, "no checkpoint">>
    ELSE IF sf.kind = "unreadable" \/ IntOf(Strip(sf.text)) = <<>>
    THEN <<"died", 0, "nothing">>
    ELSE LET found == FindStart(repos, IntOf(Strip(sf.text))[1])
         IN IF found[1] = "raise" THEN <<"died", 0, "nothing">>
            ELSE <<"loop", found[2], "resuming">>

\* lines 49-63: <<next position, start_index, message>>
Resume(sf, repos) ==
    IF ~Exists(sf) THEN <<"loop", 0, "no checkpoint">>
    ELSE IF sf.kind = "unreadable" \/ IntOf(Strip(sf.text)) = <<>>
    THEN \* open or int raised: line 61
         <<"loop", 0, "warning">>
    ELSE LET found == FindStart(repos, IntOf(Strip(sf.text))[1])
         IN IF found[1] = "raise" THEN <<"loop", 0, "warning">>
            ELSE <<"loop", found[2], "resuming">>

\* ----------------------------------------------------------------- positions
Running == {"connect", "load", "resume", "loop", "fetch", "append", "save", "write"}
Ended == {"done", "exited", "aborted", "died", "crashed"}
InItem == {"fetch", "append", "save", "write"}

\* nothing has run yet: no log, the process and the scoring stage at rest
AtRest ==
    /\ log = <<>>
    /\ pc = "idle"
    /\ repos_to_crawl = <<>>
    /\ warned = <<>>
    /\ start_index = 0
    /\ i = 0
    /\ repo_id = <<>>
    /\ processed_count = 0
    /\ result_data = NoData
    /\ step = 0
    /\ report = "nothing"
    /\ exitStatus = <<>>
    /\ run = 0
    /\ dispatched = {}
    /\ remoteCalls = {}
    /\ prevEnd = "none"
    /\ prevCleared = FALSE
    /\ prevStart = 0
    /\ crashPc = "none"
    /\ crashIdx = 0
    /\ startFile = stateFile
    /\ fresh = ~Exists(stateFile)
    /\ afterAppend = {}
    /\ failed = {}
    /\ logMark = 0
    /\ completed = FALSE
    /\ faults = 0
    /\ calls = <<>>
    /\ fatal = "none"
    /\ cleared = FALSE
    /\ ownFile = FALSE
    /\ spc = "idle"
    /\ df = <<>>
    /\ index = 0
    /\ scored_records = <<>>
    /\ scoredFile = <<>>

Init ==
    /\ inputFile \in {<<"missing">>, <<"unreadable">>}
                        \cup {<<"lines", f>> : f \in InputFiles}
    /\ stateFile \in InitialStateFiles
    /\ AtRest

\* the memory of a process that does not run
Reset ==
    /\ repos_to_crawl' = <<>>
    /\ warned' = <<>>
    /\ start_index' = 0
    /\ i' = 0
    /\ repo_id' = <<>>
    /\ processed_count' = 0
    /\ result_data' = NoData
    /\ step' = 0
    /\ report' = "nothing"
    /\ calls' = <<>>

\* the script is invoked and empties the output log before it begins
StartTruncatesLog ==
    /\ pc \in Ended \cup {"idle"}
    /\ run < MaxRuns
    /\ pc' = "connect"
    /\ run' = run + 1
    /\ Reset
    /\ exitStatus' = <<>>
    /\ dispatched' = {}
    /\ remoteCalls' = {}
    /\ prevEnd' = IF pc = "idle" THEN "none" ELSE pc
    /\ prevCleared' = cleared
    /\ prevStart' = start_index
    /\ startFile' = stateFile
    /\ failed' = {}
    /\ log' = <<>>
    /\ logMark' = 0
    /\ completed' = (completed \/ pc = "done")
    /\ fatal' = "none"
    /\ cleared' = FALSE
    /\ UNCHANGED <<scoring, inputFile, stateFile, crashPc, crashIdx, fresh,
                   afterAppend, faults, ownFile>>

\* the script is invoked
Start ==
    /\ pc \in Ended \cup {"idle"}
    /\ run < MaxRuns
    /\ pc' = "connect"
    /\ run' = run + 1
    /\ Reset
    /\ exitStatus' = <<>>
    /\ dispatched' = {}
    /\ remoteCalls' = {}
    /\ prevEnd' = IF pc = "idle" THEN "none" ELSE pc
    /\ prevCleared' = cleared
    /\ prevStart' = start_index
    /\ startFile' = stateFile
    /\ failed' = {}
    /\ logMark' = Len(log)
    /\ completed' = (completed \/ pc = "done")
    /\ fatal' = "none"
    /\ cleared' = FALSE
    /\ UNCHANGED <<scoring, disk, crashPc, crashIdx, fresh, afterAppend, faults, ownFile>>

mem == <<loaded, start_index, i, repo_id, processed_count,
         result_data, step, report, calls>>

\* lines 24-31: the connection check succeeds
Connect ==
    /\ pc = "connect"
    /\ pc' = "load"
    /\ UNCHANGED <<scoring, disk, mem, exitStatus, run, dispatched, remoteCalls, failed, ghost>>

\* lines 29-31 without the sys.exit(): the message is printed and the script
\* goes on
ConnectFailGoesOn ==
    /\ pc = "connect"
    /\ pc' = "load"
    /\ fatal' = "auth"
    /\ UNCHANGED <<scoring, disk, mem, exitStatus, run, dispatched, remoteCalls, failed,
                   history, faults, cleared, ownFile>>

\* lines 29-31: the connection check raises; sys.exit()
ConnectFail ==
    /\ pc = "connect"
    /\ pc' = "exited"
    /\ exitStatus' = <<ExitOk>>
    /\ fatal' = "auth"
    /\ UNCHANGED <<scoring, disk, mem, run, dispatched, remoteCalls, failed, history,
                   faults, cleared, ownFile>>

\* lines 35-47
LoadInput ==
    /\ pc = "load"
    /\ IF inputFile[1] = "missing"
       THEN \* FileNotFoundError: lines 45-47, sys.exit()
            /\ pc' = "exited"
            /\ exitStatus' = <<ExitOk>>
            /\ fatal' = "load"
            /\ UNCHANGED loaded
       ELSE IF inputFile[1] = "unreadable"
       THEN \* open or the read raises what line 45 does not catch
            /\ pc' = "aborted"
            /\ exitStatus' = <<ExitUncaught>>
            /\ fatal' = "load"
            /\ UNCHANGED loaded
       ELSE /\ pc' = "resume"
            /\ repos_to_crawl' = LoadLines(inputFile[2])
            /\ warned' = LoadWarnings(inputFile[2])
            /\ UNCHANGED <<exitStatus, fatal>>
    /\ UNCHANGED <<scoring, disk, start_index, i, repo_id, processed_count, result_data,
                   step, report, calls, run, dispatched, remoteCalls, failed,
                   history, faults, cleared, ownFile>>

\* lines 49-63
CheckResume ==
    /\ pc = "resume"
    /\ pc' = Resume(stateFile, repos_to_crawl)[1]
    /\ start_index' = Resume(stateFile, repos_to_crawl)[2]
    /\ report' = Resume(stateFile, repos_to_crawl)[3]
    /\ i' = start_index'
    /\ UNCHANGED <<scoring, disk, loaded, repo_id, processed_count, result_data,
                   step, calls, exitStatus, run, dispatched, remoteCalls, failed,
                   ghost>>

\* the loop head with the skip paths falling through to the append: a rejected
\* item gets a record that holds nothing but its id, its reference and an error
DispatchRecordsSkips ==
    /\ pc = "loop"
    /\ i < Len(repos_to_crawl)
    /\ dispatched' = dispatched \cup {i}
    /\ LET repo_info == repos_to_crawl[i + 1]
       IN IF ~HasId(repo_info)
          THEN \* KeyError at line 71
               /\ pc' = "died"
               /\ exitStatus' = <<ExitUncaught>>
               /\ UNCHANGED <<repo_id, i, result_data, step>>
          ELSE /\ repo_id' = <<repo_info.id>>
               /\ IF ~HasUrl(repo_info)
                  THEN \* KeyError at line 72
                       /\ pc' = "died"
                       /\ exitStatus' = <<ExitUncaught>>
                       /\ UNCHANGED <<i, result_data, step>>
                  ELSE IF Skipped(repo_info.url)
                  THEN /\ pc' = "append"
                       /\ result_data' =
                              [BlankData(repo_info.id, RefRepo) EXCEPT
                                  !.url = repo_info.url, !.owner = Null,
                                  !.repo_name = Null, !.error = UnknownError]
                       /\ UNCHANGED <<exitStatus, i, step>>
                  ELSE /\ pc' = "fetch"
                       /\ result_data' = BlankData(repo_info.id, repo_info.url)
                       /\ step' = 1
                       /\ UNCHANGED <<exitStatus, i>>
    /\ UNCHANGED <<scoring, disk, loaded, start_index, processed_count, report,
                   calls, run, remoteCalls, failed, ghost>>

\* lines 69-104: the head of one iteration, up to the skip paths
Dispatch ==
    /\ pc = "loop"
    /\ i < Len(repos_to_crawl)
    /\ dispatched' = dispatched \cup {i}
    /\ LET repo_info == repos_to_crawl[i + 1]
       IN IF ~HasId(repo_info)
          THEN \* KeyError at line 71
               /\ pc' = "died"
               /\ exitStatus' = <<ExitUncaught>>
               /\ UNCHANGED <<repo_id, i, result_data, step>>
          ELSE /\ repo_id' = <<repo_info.id>>
               /\ IF ~HasUrl(repo_info)
                  THEN \* KeyError at line 72
                       /\ pc' = "died"
                       /\ exitStatus' = <<ExitUncaught>>
                       /\ UNCHANGED <<i, result_data, step>>
                  ELSE IF Skipped(repo_info.url)
                  THEN \* continue
                       /\ pc' = "loop"
                       /\ i' = i + 1
                       /\ UNCHANGED <<exitStatus, result_data, step>>
                  ELSE /\ pc' = "fetch"
                       /\ result_data' = BlankData(repo_info.id, repo_info.url)
                       /\ step' = 1
                       /\ UNCHANGED <<exitStatus, i>>
    /\ UNCHANGED <<scoring, disk, loaded, start_index, processed_count, report,
                   calls, run, remoteCalls, failed, ghost>>

\* lines 108-134 with the contributors fetched behind the commit counts of the
\* trailing 30 days
FetchOkContributorsLate ==
    /\ pc = "fetch"
    /\ remoteCalls' = remoteCalls \cup {i}
    /\ calls' = calls \o <<<<"call", i, step>>, <<"sleep", i, step>>>>
    /\ result_data' = AfterStep(result_data, step)
    /\ IF step = LastStep
       THEN pc' = "append" /\ UNCHANGED step
       ELSE /\ pc' = "fetch"
            /\ step' = IF step = 1 THEN 3 ELSE IF step = 3 THEN 2 ELSE LastStep
    /\ UNCHANGED <<scoring, disk, loaded, start_index, i, repo_id,
                   processed_count, report, exitStatus, run, dispatched, failed, ghost>>

\* lines 108-134: the remote call of the step succeeds, then time.sleep(1)
FetchOk ==
    /\ pc = "fetch"
    /\ remoteCalls' = remoteCalls \cup {i}
    /\ calls' = calls \o <<<<"call", i, step>>, <<"sleep", i, step>>>>
    /\ result_data' = AfterStep(result_data, step)
    /\ IF step = LastStep
       THEN pc' = "append" /\ UNCHANGED step
       ELSE pc' = "fetch" /\ step' = step + 1
    /\ UNCHANGED <<scoring, disk, loaded, start_index, i, repo_id,
                   processed_count, report, exitStatus, run, dispatched, failed, ghost>>

\* lines 108-145 with the field of the step assigned before the call raises
FetchFailKeepsValue ==
    /\ pc = "fetch"
    /\ faults < MaxFaults
    /\ faults' = faults + 1
    /\ remoteCalls' = remoteCalls \cup {i}
    /\ calls' = Append(calls, <<"call", i, step>>)
    /\ \E e \in {GithubError, UnknownError} :
           result_data' = [AfterStep(result_data, step) EXCEPT !.error = e]
    /\ pc' = "append"
    /\ failed' = failed \cup {<<i, step>>}
    /\ UNCHANGED <<scoring, disk, loaded, start_index, i, repo_id,
                   processed_count, step, report, exitStatus, run, dispatched,
                   history, outcome>>

\* lines 138-145: the remote call of the step raises, the handler records it
FetchFail ==
    /\ pc = "fetch"
    /\ faults < MaxFaults
    /\ faults' = faults + 1
    /\ remoteCalls' = remoteCalls \cup {i}
    /\ calls' = Append(calls, <<"call", i, step>>)
    /\ \E e \in {GithubError, UnknownError} :
           result_data' = [result_data EXCEPT !.error = e]
    /\ pc' = "append"
    /\ failed' = failed \cup {<<i, step>>}
    /\ UNCHANGED <<scoring, disk, loaded, start_index, i, repo_id,
                   processed_count, step, report, exitStatus, run, dispatched,
                   history, outcome>>

\* line 139: a GithubException whose data is no dict (None for an empty body):
\* e.data.get raises inside the handler
FetchFailNoDict ==
    /\ pc = "fetch"
    /\ faults < MaxFaults
    /\ faults' = faults + 1
    /\ remoteCalls' = remoteCalls \cup {i}
    /\ calls' = Append(calls, <<"call", i, step>>)
    /\ pc' = "died"
    /\ exitStatus' = <<ExitUncaught>>
    /\ failed' = failed \cup {<<i, step>>}
    /\ UNCHANGED <<scoring, disk, loaded, start_index, i, repo_id,
                   processed_count, result_data, step, report, run, dispatched,
                   history, outcome>>

\* lines 150-152 with the output file opened in mode 'w'
AppendRecordRewrites ==
    /\ pc = "append"
    /\ log' = <<result_data>>
    /\ pc' = "save"
    /\ UNCHANGED <<scoring, inputFile, stateFile, mem, exitStatus, run, dispatched,
                   remoteCalls, failed, ghost>>

\* lines 150-152 writing only the records that carry no error
AppendRecordOnlySuccess ==
    /\ pc = "append"
    /\ log' = IF result_data.error = Null THEN Append(log, result_data) ELSE log
    /\ pc' = "save"
    /\ UNCHANGED <<scoring, inputFile, stateFile, mem, exitStatus, run, dispatched,
                   remoteCalls, failed, ghost>>

\* lines 150-152
AppendRecord ==
    /\ pc = "append"
    /\ log' = Append(log, result_data)
    /\ pc' = "save"
    /\ UNCHANGED <<scoring, inputFile, stateFile, mem, exitStatus, run, dispatched,
                   remoteCalls, failed, ghost>>

\* line 155: open(STATE_FILE, 'w') creates or truncates the file
OpenState ==
    /\ pc = "save"
    /\ \/ /\ stateFile' = IF stateFile.kind = "unreadable"
                          THEN [stateFile EXCEPT !.text = <<>>]
                          ELSE Text(<<>>)
          /\ pc' = "write"
          /\ UNCHANGED exitStatus
       \/ \* what cannot be read may refuse the write as well
          /\ stateFile.kind = "unreadable"
          /\ pc' = "died"
          /\ exitStatus' = <<ExitUncaught>>
          /\ UNCHANGED stateFile
    /\ UNCHANGED <<scoring, inputFile, log, mem, run, dispatched, remoteCalls, failed, ghost>>

\* lines 156-158 with the position in the dataset written in place of the id
WriteStateIndex ==
    /\ pc = "write"
    /\ stateFile' = IF stateFile.kind = "unreadable"
                    THEN [stateFile EXCEPT !.text = Str(i)]
                    ELSE Text(Str(i))
    /\ processed_count' = processed_count + 1
    /\ i' = i + 1
    /\ pc' = "loop"
    /\ ownFile' = (stateFile.kind # "unreadable")
    /\ UNCHANGED <<scoring, inputFile, log, loaded, start_index, repo_id,
                   result_data, step, report, calls, exitStatus, run, dispatched,
                   remoteCalls, failed, history, faults, fatal, cleared>>

\* lines 156-158: the id is written and the file closed; processed_count += 1
WriteState ==
    /\ pc = "write"
    /\ stateFile' = IF stateFile.kind = "unreadable"
                    THEN [stateFile EXCEPT !.text = Str(repo_id[1])]
                    ELSE Text(Str(repo_id[1]))
    /\ processed_count' = processed_count + 1
    /\ i' = i + 1
    /\ pc' = "loop"
    /\ ownFile' = (stateFile.kind # "unreadable")
    /\ UNCHANGED <<scoring, inputFile, log, loaded, start_index, repo_id,
                   result_data, step, report, calls, exitStatus, run, dispatched,
                   remoteCalls, failed, history, faults, fatal, cleared>>

\* the clean-up of lines 168-170 without its condition
SweepOverAlways == TRUE

\* the condition of line 168 taken from the loop's position, not from the count
SweepOverByLoopIndex == i >= Len(repos_to_crawl)

\* the condition of line 168
SweepOver == start_index + processed_count >= Len(repos_to_crawl)

\* lines 162-170
Finish ==
    /\ pc = "loop"
    /\ i >= Len(repos_to_crawl)
    /\ IF repo_id = <<>>
       THEN \* NameError at line 165: the loop body never ran
            /\ pc' = "died"
            /\ exitStatus' = <<ExitUncaught>>
            /\ UNCHANGED stateFile
       ELSE IF SweepOver /\ ~Exists(stateFile)
       THEN \* FileNotFoundError at line 169
            /\ pc' = "died"
            /\ exitStatus' = <<ExitUncaught>>
            /\ UNCHANGED stateFile
       ELSE /\ pc' = "done"
            /\ exitStatus' = <<ExitOk>>
            /\ stateFile' = IF SweepOver THEN Absent ELSE stateFile
    /\ cleared' = (pc' = "done" /\ SweepOver)
    /\ UNCHANGED <<scoring, inputFile, log, mem, run, dispatched, remoteCalls, failed,
                   history, faults, fatal, ownFile>>

\* the process is killed (power loss, kill, Ctrl-C) wherever it stands
Crash ==
    /\ pc \in Running
    /\ pc' = "crashed"
    /\ Reset
    /\ crashPc' = pc
    /\ crashIdx' = i
    /\ afterAppend' = IF pc \in {"save", "write"} THEN afterAppend \cup {i}
                      ELSE afterAppend
    /\ UNCHANGED <<scoring, disk, exitStatus, run, dispatched, remoteCalls, prevEnd,
                   prevCleared, prevStart,
                   startFile, fresh, failed, logMark, completed, faults, outcome>>

Next ==
    \/ Start
    \/ Connect
    \/ ConnectFail
    \/ LoadInput
    \/ CheckResume
    \/ Dispatch
    \/ FetchOk
    \/ FetchFail
    \/ FetchFailNoDict
    \/ AppendRecord
    \/ OpenState
    \/ WriteState
    \/ Finish
    \/ Crash

Spec == Init /\ [][Next]_vars

\* the crawler run on a dataset of one item, with every shape of reference,
\* in a directory that holds no state file or one that cannot be read
ResolveInit ==
    /\ inputFile \in {<<"lines", <<[id |-> IdAt(1), url |-> u]>>>> : u \in Catalogue}
    /\ stateFile \in {Absent, Unreadable}
    /\ AtRest

ResolveSpec == ResolveInit /\ [][Next]_vars

\* ------------------------------------------------------------ scoring stage
\* numbers of the scoring stage: the fraction <<n, d>> in lowest terms, d > 0,
\* or NaN, written as the fraction no number has
NaN == <<0, 0>>

RECURSIVE GCD(_, _)
GCD(a, b) == IF b = 0 THEN a ELSE GCD(b, a % b)

Frac(n, d) == LET g == GCD(IF n < 0 THEN 0 - n ELSE n, d)
              IN <<n \div g, d \div g>>

Plus(x, y) == IF x = NaN \/ y = NaN THEN NaN
              ELSE Frac(x[1] * y[2] + y[1] * x[2], x[2] * y[2])

\* x / d * n
Scaled(x, d, n) == IF x = NaN THEN NaN ELSE Frac(x[1] * n, x[2] * d)

\* x < y of Python floats: False when either is NaN
Less(x, y) == x # NaN /\ y # NaN /\ x[1] * y[2] < y[1] * x[2]

\* min(a, b) without the cap
PyMinUncapped(a, b) == a

\* min(a, b): b when b < a, else a
PyMin(a, b) == IF Less(b, a) THEN b ELSE a

\* round(x, 2) in hundredths, ties to even; NaN stays NaN
Round2(x) ==
    IF x = NaN THEN NaN
    ELSE LET q == (100 * x[1]) \div x[2]
             r == (100 * x[1]) % x[2]
         IN IF 2 * r < x[2] THEN <<q>>
            ELSE IF 2 * r > x[2] THEN <<q + 1>>
            ELSE IF q % 2 = 0 THEN <<q>> ELSE <<q + 1>>

\* the caps and weights of calculate_scores
max_commits == 10000
CommitsWeight == 15
max_contributors == 200
ContributorsWeight == 20
TopContributors == 10
DistributionWeight == 15
max_recent_commits == 50
RecentWeight == 25
UpdateWeight == 15
FreshDays == 1
StaleDays == 180
max_stars == 50000
StarsWeight == 10

\* sum([c[1] for c in contributors_list[:10]])
RECURSIVE SumContributions(_, _)
SumContributions(list, n) ==
    IF n = 0 \/ list = <<>> THEN 0
    ELSE Head(list)[2] + SumContributions(Tail(list), n - 1)

\* lines 32-41: <<>> when the branch is not taken
DistributionScore(total_commits, contributors_list) ==
    IF Less(Frac(0, 1), total_commits) /\ Len(contributors_list) >= TopContributors
    THEN LET top10 == SumContributions(contributors_list, TopContributors)
             \* top10_ratio = top10 / total_commits, compared with 0.2 and 0.8
             ratio == Frac(top10 * total_commits[2], total_commits[1])
         IN IF ~Less(Frac(1, 5), ratio) THEN <<Frac(DistributionWeight, 1)>>
            ELSE IF ~Less(ratio, Frac(4, 5)) THEN <<Frac(0, 1)>>
            ELSE \* 15 - (ratio - 0.2) / (0.8 - 0.2) * 15 = 20 - 25 * ratio
                 <<Frac(20 * ratio[2] - 25 * ratio[1], ratio[2])>>
    ELSE <<>>

\* lines 48-63: <<>> when no score is added. pushed_at is None, or <<zone,
\* days>>: whether the time carries a UTC offset, and (now - pushed_at).days
UpdateScore(pushed_at) ==
    IF pushed_at = Null THEN <<>>
    ELSE IF pushed_at[1] = "naive" THEN \* TypeError at line 53, caught at 61
         <<>>
    ELSE IF pushed_at[2] <= FreshDays THEN <<Frac(UpdateWeight, 1)>>
    ELSE IF pushed_at[2] >= StaleDays THEN <<Frac(0, 1)>>
    ELSE <<Frac(UpdateWeight * StaleDays - UpdateWeight * pushed_at[2], StaleDays)>>

\* lines 13-69: <<score_contribution, score_activity, their sum>>
calculate_scores(row) ==
    LET commits_score ==
            PyMin(Scaled(row.total_commits_count, max_commits, CommitsWeight),
                  Frac(CommitsWeight, 1))
        contributors_list == row.contributor_list
        contributors_score ==
            PyMin(Scaled(Frac(Len(contributors_list), 1), max_contributors,
                         ContributorsWeight),
                  Frac(ContributorsWeight, 1))
        distribution == DistributionScore(row.total_commits_count, contributors_list)
        score_contribution ==
            LET base == Plus(Plus(Frac(0, 1), commits_score), contributors_score)
            IN IF distribution = <<>> THEN base ELSE Plus(base, distribution[1])
        recent_commits_score ==
            PyMin(Scaled(row.recent_commits_count, max_recent_commits, RecentWeight),
                  Frac(RecentWeight, 1))
        update == UpdateScore(row.pushed_at)
        stars_score ==
            PyMin(Scaled(row.stargazers_count, max_stars, StarsWeight),
                  Frac(StarsWeight, 1))
        score_activity ==
            LET base == Plus(Frac(0, 1), recent_commits_score)
            IN Plus(IF update = <<>> THEN base ELSE Plus(base, update[1]),
                    stars_score)
    IN <<score_contribution, score_activity,
         Plus(score_contribution, score_activity)>>

\* a number of the log as pd.read_json hands it on: null becomes NaN
Cell(v) == IF v = Null THEN NaN ELSE Frac(v[1], 1)

\* line 76: one row per line of the log, in the order of the log
ReadJson(records) ==
    [n \in 1..Len(records) |->
        [records[n] EXCEPT
            !.stargazers_count = Cell(@), !.forks_count = Cell(@),
            !.open_issues_count = Cell(@), !.recent_commits_count = Cell(@),
            !.total_commits_count = Cell(@)]]

\* lines 88-110: the row with its three rounded scores
ScoredRecord(row) ==
    LET scores == calculate_scores(row)
    IN row @@ [contribution_score |-> Round2(scores[1]),
               activity_score |-> Round2(scores[2]),
               total_score |-> Round2(scores[3])]

\* the records the scoring stage is run on: of each line of the dataset a
\* full record, a record of a failed first call, a record of a call that
\* failed behind the contributors, a record beyond the caps and one at them
Contributors(n, each) == [k \in 1..n |-> <<"login", each>>]

FullRecord(id) ==
    [BlankData(id, RefRepo) EXCEPT
        !.stargazers_count = <<100>>, !.forks_count = <<3>>,
        !.open_issues_count = <<1>>, !.created_at = <<"aware", 400>>,
        !.pushed_at = <<"aware", 30>>,
        !.contributor_list = Contributors(10, 100),
        !.recent_commits_count = <<10>>, !.total_commits_count = <<2500>>]

FailedRecord(id) == [BlankData(id, RefRepo) EXCEPT !.error = GithubError]

PartialRecord(id) ==
    [BlankData(id, RefRepo) EXCEPT
        !.stargazers_count = <<7>>, !.forks_count = <<0>>,
        !.open_issues_count = <<0>>, !.created_at = <<"naive", 400>>,
        !.pushed_at = <<"naive", 0>>,
        !.contributor_list = Contributors(2, 5),
        !.error = UnknownError]

LargeRecord(id) ==
    [BlankData(id, RefRepo) EXCEPT
        !.stargazers_count = <<100000>>, !.forks_count = <<3>>,
        !.open_issues_count = <<1>>, !.created_at = <<"aware", 4000>>,
        !.pushed_at = <<"aware", 200>>,
        !.contributor_list = Contributors(12, 10),
        !.recent_commits_count = <<80>>, !.total_commits_count = <<20000>>]

\* every part of both scores at its cap
CappedRecord(id) ==
    [BlankData(id, RefRepo) EXCEPT
        !.stargazers_count = <<max_stars>>, !.forks_count = <<3>>,
        !.open_issues_count = <<1>>, !.created_at = <<"aware", 4000>>,
        !.pushed_at = <<"aware", 0>>,
        !.contributor_list = Contributors(max_contributors, 1),
        !.recent_commits_count = <<max_recent_commits>>,
        !.total_commits_count = <<max_commits>>]

LogRecords ==
    UNION {{FullRecord(IdAt(k)), FailedRecord(IdAt(k)), PartialRecord(IdAt(k)),
            LargeRecord(IdAt(k)), CappedRecord(IdAt(k))} : k \in 1..MaxLines}

MaxLog == 3

Logs == UNION {[1..n -> LogRecords] : n \in 0..MaxLog}

\* the crawler has run and is at rest; the scoring stage is about to run on
\* the log it left
\* the scoring stage before its first statement: the crawler is not running
ScoreAtRest ==
    /\ inputFile = <<"lines", <<>>>>
    /\ stateFile = Absent
    /\ pc = "idle"
    /\ repos_to_crawl = <<>>
    /\ warned = <<>>
    /\ start_index = 0
    /\ i = 0
    /\ repo_id = <<>>
    /\ processed_count = 0
    /\ result_data = NoData
    /\ step = 0
    /\ report = "nothing"
    /\ exitStatus = <<>>
    /\ run = 0
    /\ dispatched = {}
    /\ remoteCalls = {}
    /\ prevEnd = "none"
    /\ prevCleared = FALSE
    /\ prevStart = 0
    /\ crashPc = "none"
    /\ crashIdx = 0
    /\ startFile = Absent
    /\ fresh = TRUE
    /\ afterAppend = {}
    /\ failed = {}
    /\ logMark = 0
    /\ completed = FALSE
    /\ faults = 0
    /\ calls = <<>>
    /\ fatal = "none"
    /\ cleared = FALSE
    /\ ownFile = FALSE
    /\ spc = "idle"
    /\ df = <<>>
    /\ index = 0
    /\ scored_records = <<>>
    /\ scoredFile = <<>>

ScoreInit ==
    /\ log \in Logs
    /\ ScoreAtRest

crawler == <<disk, pc, mem, exitStatus, run, dispatched, remoteCalls, failed,
             ghost>>

\* lines 75-86: the log is read into the frame
ScoreLoad ==
    /\ spc = "idle"
    /\ df' = ReadJson(log)
    /\ index' = 0
    /\ scored_records' = <<>>
    /\ spc' = "rows"
    /\ UNCHANGED <<crawler, scoredFile>>

\* lines 78-83: the log cannot be read; main returns
ScoreLoadFail ==
    /\ spc = "idle"
    /\ log = <<>>
    /\ spc' = "returned"
    /\ UNCHANGED <<crawler, df, index, scored_records, scoredFile>>

\* lines 87-116: one row is scored
ScoreRow ==
    /\ spc = "rows"
    /\ index < Len(df)
    /\ scored_records' = Append(scored_records, ScoredRecord(df[index + 1]))
    /\ index' = index + 1
    /\ UNCHANGED <<crawler, spc, df, scoredFile>>

\* lines 118-131: every scored record is written, one per line
ScoreWrite ==
    /\ spc = "rows"
    /\ index = Len(df)
    /\ scoredFile' = scored_records
    /\ spc' = "finished"
    /\ UNCHANGED <<crawler, df, index, scored_records>>

\* lines 127-129: the write raises after n lines; main returns
ScoreWriteFail ==
    /\ spc = "rows"
    /\ index = Len(df)
    /\ \E n \in 0..(Len(scored_records) - 1) :
           scoredFile' = SubSeq(scored_records, 1, n)
    /\ spc' = "returned"
    /\ UNCHANGED <<crawler, df, index, scored_records>>

ScoreNext ==
    \/ ScoreLoad
    \/ ScoreLoadFail
    \/ ScoreRow
    \/ ScoreWrite
    \/ ScoreWriteFail

ScoreSpec == ScoreInit /\ [][ScoreNext]_vars

\* the counts and times a complete record can carry: below, at and beyond
\* each cap and each threshold of calculate_scores
GridCommits == {0, 1, 2500, max_commits, 20000}

GridContributors ==
    {<<>>, Contributors(9, 100), Contributors(TopContributors, 50),
     Contributors(TopContributors, 100), Contributors(TopContributors, 1000),
     Contributors(12, 1), Contributors(max_contributors, 1),
     Contributors(250, 1)}

GridRecent == {0, 10, max_recent_commits, 80}

GridPushed ==
    {Null, <<"naive", 30>>}
        \cup {<<"aware", d>> : d \in {0 - 1, 0, FreshDays, 2, 30, 179, StaleDays, 200}}

GridStars == {0, 100, max_stars, 100000}

GridRecords ==
    {[BlankData(IdAt(1), RefRepo) EXCEPT
        !.stargazers_count = <<stars>>, !.forks_count = <<3>>,
        !.open_issues_count = <<1>>, !.created_at = <<"aware", 4000>>,
        !.pushed_at = pushed, !.contributor_list = list,
        !.recent_commits_count = <<recent>>,
        !.total_commits_count = <<commits>>] :
            <<commits, list, recent, pushed, stars>> \in
                GridCommits \X GridContributors \X GridRecent \X GridPushed
                    \X GridStars}

\* the scoring stage run on a log of one complete record, or on no log
RangeInit ==
    /\ ScoreAtRest
    /\ log \in {<<>>} \cup {<<r>> : r \in GridRecords}

RangeSpec == RangeInit /\ [][ScoreNext]_vars

\* ---------------------------------------------------------------- properties
\* the items the running (or ended) process loaded, read from the disk
Dataset == IF inputFile[1] = "lines" THEN LoadLines(inputFile[2]) ELSE <<>>

Resolvable(item) == HasId(item) /\ HasUrl(item) /\ ~Skipped(item.url)
Rejected(item) == HasId(item) /\ HasUrl(item) /\ Skipped(item.url)

AllResolvable == \A k \in 1..Len(Dataset) : Resolvable(Dataset[k])

RecordsOf(id) == {n \in 1..Len(log) : log[n].id = id}
NewRecordsOf(id) == {n \in (logMark + 1)..Len(log) : log[n].id = id}

\* the process has computed its resume offset and still holds it
AfterResume == {"loop", "fetch", "append", "save", "write", "done", "died"}
InLoop == {"loop", "fetch", "append", "save", "write"}

\* this invocation follows one that was killed inside the crawl loop
ResumedAfterCrash == prevEnd = "crashed" /\ crashPc \in InLoop /\ pc \in AfterResume

\* the state file holds the text of the integer v
Holds(sf, v) == sf.kind = "text" /\ IntOf(Strip(sf.text)) = <<v>>

\* C1: resume correctness. After a kill inside the loop with index crashIdx
\* next (in flight or not yet begun), the next invocation, run on the
\* artifacts the pipeline itself left, dispatches no index below crashIdx, and
\* by its end has dispatched exactly crashIdx .. last.
C1_ResumeDispatchesRemaining ==
    (fresh /\ ResumedAfterCrash) =>
        /\ \A k \in dispatched : k >= crashIdx
        /\ pc = "done" => dispatched = crashIdx..(Len(Dataset) - 1)

\* C2: a kill after the append of item X and before its id is saved makes the
\* next invocation resume at X itself; when that invocation ends, the log
\* holds two records of X and no other item has a duplicate.
C2_CrashAfterAppendResumesAtItem ==
    (fresh /\ ResumedAfterCrash /\ crashPc \in {"save", "write"}) =>
        /\ start_index = crashIdx
        /\ (pc = "done" /\ run = 2) =>
              \A k \in 1..Len(Dataset) :
                  HasId(Dataset[k]) =>
                      Cardinality(RecordsOf(Dataset[k].id))
                          <= (IF k = crashIdx + 1 THEN 2 ELSE 1)
        /\ (pc = "done" /\ run = 2) =>
              Cardinality(RecordsOf(Dataset[crashIdx + 1].id)) = 2

\* C3: an invocation that found no state file and ran to the end of the script
\* leaves no state file, whatever the references of the dataset.
C3_CleanSweepClearsCheckpoint ==
    (~Exists(startFile) /\ pc = "done") => ~Exists(stateFile)

\* C4: total coverage. When, after any kills, a first invocation reaches the
\* end of the script, every resolvable item has a record, and exactly one
\* unless a kill fell between its append and its checkpoint save.
C4_TotalCoverage ==
    (fresh /\ ~completed /\ pc = "done") =>
        \A k \in 1..Len(Dataset) :
            Resolvable(Dataset[k]) =>
                /\ Cardinality(RecordsOf(Dataset[k].id)) >= 1
                /\ (k - 1) \notin afterAppend =>
                       Cardinality(RecordsOf(Dataset[k].id)) = 1

\* the record of an item whose call of step n raised: the fields of the steps
\* before n fetched, the others at their defaults
RECURSIVE StepsDone(_, _)
StepsDone(rd, n) == IF n = 0 THEN rd ELSE AfterStep(StepsDone(rd, n - 1), n)

\* C5: no silent loss (in a directory that held no state file). Once the
\* process has left the handler of a remote call that raised for item k at
\* step n, this invocation has appended exactly one record of k; its error is
\* set, the fields of steps 1..n-1 hold the fetched values and the fields of
\* steps n..4 their defaults.
C5_NoSilentLoss ==
    \A f \in failed :
        (fresh /\ pc \notin {"append", "crashed"}) =>
            LET item == Dataset[f[1] + 1]
                mine == NewRecordsOf(item.id)
            IN /\ Cardinality(mine) = 1
               /\ \A n \in mine :
                      /\ log[n].error # Null
                      /\ [log[n] EXCEPT !.error = Null]
                             = StepsDone(BlankData(item.id, item.url), f[2] - 1)

\* C6: once the resolver has rejected an item and the loop has moved on, the
\* state file holds that item's id (in a directory that held no state file
\* before the first invocation).
C6_SkipAdvancesCheckpoint ==
    (fresh /\ pc = "loop" /\ i > start_index /\ Rejected(repos_to_crawl[i])) =>
        Holds(stateFile, repos_to_crawl[i].id)

\* C7: an item the resolver rejects gets no record in the output log and no
\* remote call is made for it.
C7_RejectedItemLeavesNoTrace ==
    \A k \in 1..Len(Dataset) :
        Rejected(Dataset[k]) =>
            /\ RecordsOf(Dataset[k].id) = {}
            /\ (k - 1) \notin remoteCalls

\* a run skipped a rejected item after it fetched and recorded another one
C7_Witness ==
    /\ pc = "loop"
    /\ i = 2
    /\ Rejected(repos_to_crawl[2])
    /\ dispatched = {0, 1}
    /\ remoteCalls = {0}
    /\ Len(log) = 1

\* C8, for datasets whose references all resolve: after a kill while item
\* crashIdx was in flight, the write of the state file included, the resume
\* offset of the next invocation is at least crashIdx.
C8_CrashLosesOnlyInFlightItem ==
    (fresh /\ AllResolvable /\ ResumedAfterCrash /\ crashPc \in InItem) =>
        start_index >= crashIdx

\* the state file exists and no integer can be read from it
Corrupt(sf) ==
    Exists(sf) /\ (sf.kind = "unreadable" \/ IntOf(Strip(sf.text)) = <<>>)

\* C9: an invocation that finds a state file it cannot read as an integer
\* does not end in the resume detection: in every state after it the warning has
\* been reported and the resume offset is 0, and the first item dispatched is
\* the first of the dataset.
C9_CorruptCheckpointStartsOver ==
    (pc \in AfterResume /\ Corrupt(startFile)) =>
        /\ report = "warning"
        /\ start_index = 0
        /\ dispatched # {} => 0 \in dispatched

\* a run killed while it wrote the state file left it empty; the next run
\* warned and dispatched the first item again
C9_Witness ==
    /\ prevEnd = "crashed"
    /\ crashPc = "write"
    /\ crashIdx = 1
    /\ startFile = Text(<<>>)
    /\ report = "warning"
    /\ start_index = 0
    /\ 0 \in dispatched
    /\ exitStatus = <<>>

\* the state file holds an integer that is the id of no loaded item
ForeignCheckpoint(sf, repos) ==
    /\ sf.kind = "text"
    /\ IntOf(Strip(sf.text)) # <<>>
    /\ \A k \in 1..Len(repos) :
           HasId(repos[k]) => repos[k].id # IntOf(Strip(sf.text))[1]

\* C10: an invocation that finds in the state file an integer that is the id
\* of no loaded item has resume offset 0 in every state after the resume
\* detection, and the first item it dispatches is the first of the dataset.
C10_ForeignCheckpointStartsOver ==
    (pc \in AfterResume /\ ForeignCheckpoint(startFile, repos_to_crawl)) =>
        /\ start_index = 0
        /\ dispatched # {} => 0 \in dispatched

\* a run found the id of no item in the state file and began with the first of
\* its two items
C10_Witness ==
    /\ pc = "fetch"
    /\ i = 0
    /\ start_index = 0
    /\ Len(repos_to_crawl) = 2
    /\ \A k \in 1..2 : Resolvable(repos_to_crawl[k])
    /\ ForeignCheckpoint(startFile, repos_to_crawl)
    /\ report = "resuming"

\* C11: an invocation that finds in the state file an integer that is the id
\* of no loaded item reports the warning, not that a resume point was detected.
C11_ForeignCheckpointWarns ==
    (pc \in AfterResume /\ ForeignCheckpoint(startFile, repos_to_crawl)) =>
        report = "warning"

\* C12: in every invocation that removes the state file, each item of the
\* dataset was dispatched by that invocation.
C12_ClearedOnlyAfterFullSweepInRun ==
    cleared => dispatched = 0..(Len(repos_to_crawl) - 1)

\* C12, amended: in every invocation that removes the state file, each item at
\* or after the resume offset of that invocation was dispatched and recorded by
\* it, and no item before the offset was dispatched by it.
C12_ClearedOnlyAfterSweepFromOffset ==
    cleared =>
        /\ dispatched = start_index..(Len(repos_to_crawl) - 1)
        /\ \A k \in dispatched : NewRecordsOf(repos_to_crawl[k + 1].id) # {}

\* a resumed run of a two-item dataset dispatched only the second item and
\* removed the state file
C12_Witness ==
    /\ cleared
    /\ Len(repos_to_crawl) = 2
    /\ start_index = 1
    /\ dispatched = {1}
    /\ ~Exists(stateFile)

\* C13: an invocation stopped by the connection check or by the loading of the
\* input has ended, has dispatched no item and made no remote call, has
\* appended nothing to the log and has left the state file as it found it.
C13_FatalFailureAbortsBeforeProcessing ==
    fatal # "none" =>
        /\ pc \in {"exited", "aborted"}
        /\ dispatched = {}
        /\ remoteCalls = {}
        /\ Len(log) = logMark
        /\ stateFile = startFile

\* after a run that was killed behind its first record, a run failed its
\* connection check: the log and the state file are what the first run left
C13_Witness ==
    /\ fatal = "auth"
    /\ pc = "exited"
    /\ prevEnd = "crashed"
    /\ Len(log) = 1
    /\ Holds(stateFile, IdAt(1))

\* C14: an invocation stopped by a start-up failure ends with a status other
\* than the one of a completed run, and a run that reaches the end of the
\* script ends with status 0 whatever happened to its items.
C14_ExitStatusReflectsFatalOnly ==
    /\ (fatal # "none" /\ exitStatus # <<>>) => exitStatus # <<ExitOk>>
    /\ pc = "done" => exitStatus = <<ExitOk>>

\* C15: no failure other than the two start-up failures stops the process
\* inside an item: a process that died by an exception has moved past every
\* item it dispatched.
C15_OnlyFatalFailuresStop ==
    (pc = "died" /\ fatal = "none") => \A k \in dispatched : k < i

\* C16: the output log is append-only: in every step the log before the step
\* is a prefix of the log after it.
C16_LogAppendOnly ==
    [][/\ Len(log) <= Len(log')
       /\ SubSeq(log', 1, Len(log)) = log]_vars

\* a resumed run appended a second record behind the one the killed run left
C16_Witness ==
    /\ run = 2
    /\ prevEnd = "crashed"
    /\ logMark = 1
    /\ Len(log) = 2

\* C17: when the state file holds an id the crawler wrote, the log holds a
\* record with that id.
C17_AppendPrecedesCheckpoint ==
    (ownFile /\ stateFile.kind = "text" /\ IntOf(Strip(stateFile.text)) # <<>>) =>
        RecordsOf(IntOf(Strip(stateFile.text))[1]) # {}

\* a process was killed right after it saved the id of its second item
C17_Witness ==
    /\ pc = "crashed"
    /\ crashPc = "loop"
    /\ crashIdx = 2
    /\ ownFile
    /\ Holds(stateFile, IdAt(2))
    /\ Len(log) = 2

\* C18, for a non-empty dataset whose references all resolve and a directory
\* that held no state file: an invocation that follows a killed one, is not
\* killed itself and meets no failure ends at the end of the script with the
\* state file removed.
C18_UninterruptedRunCompletes ==
    (/\ fresh
     /\ AllResolvable
     /\ Len(Dataset) > 0
     /\ prevEnd = "crashed"
     /\ failed = {}
     /\ fatal = "none"
     /\ pc \in {"done", "exited", "aborted", "died"}) =>
        (pc = "done" /\ ~Exists(stateFile))

\* the positions in calls of the remote calls made for item k
CallsOf(k) == {n \in 1..Len(calls) : calls[n][1] = "call" /\ calls[n][2] = k}

\* C20: once a remote call of step n has raised for item k, the running process
\* makes no call of a later step and no second call of step n for k, and it
\* goes on to append the record of k.
C20_FailureShortCircuits ==
    \A f \in failed :
        pc # "crashed" =>
            /\ \A n \in CallsOf(f[1]) : calls[n][3] <= f[2]
            /\ Cardinality({n \in CallsOf(f[1]) : calls[n][3] = f[2]}) = 1
            /\ i = f[1] => pc \in {"append", "save", "write"}
            /\ i > f[1] => NewRecordsOf(repos_to_crawl[f[1] + 1].id) # {}

\* the positions in records of the records with the id
WithId(records, id) == {n \in 1..Len(records) : records[n].id = id}

Last(S) == CHOOSE n \in S : \A m \in S : m <= n

\* C19: when the scoring stage has finished, its output holds, for each id of
\* the log, one scored record, and it is the one computed from the last record
\* with that id.
C19_ScoringKeepsLastPerId ==
    spc = "finished" =>
        \A n \in 1..Len(log) :
            LET id == log[n].id
            IN /\ Cardinality(WithId(scoredFile, id)) = 1
               /\ \A m \in WithId(scoredFile, id) :
                      scoredFile[m] = ScoredRecord(ReadJson(log)[Last(WithId(log, id))])

\* C21: in every run a pacing delay lies between any two consecutive remote
\* calls, within an item and across items, whether the earlier call succeeded
\* or raised.
C21_PacingBetweenCalls ==
    \A n \in 1..(Len(calls) - 1) :
        calls[n][1] = "call" => calls[n + 1][1] = "sleep"

\* the steps of the remote calls made for item k, in the order of their issue
StepsOf(k) ==
    LET own == SelectSeq(calls, LAMBDA e : e[1] = "call" /\ e[2] = k)
    IN [n \in 1..Len(own) |-> own[n][3]]

\* the running process has left the fetch of item k and no call of it raised
FetchedAll(k) ==
    /\ k \in remoteCalls
    /\ \A f \in failed : f[1] # k
    /\ k < i \/ (k = i /\ pc \in {"append", "save", "write"})

\* C22: for every item the remote calls are issued in the order summary (1),
\* contributors (2), commits of the trailing 30 days (3), all commits (4), none
\* before an earlier one and none twice; an item whose calls all succeeded got
\* all four.
C22_FixedCallOrder ==
    \A k \in remoteCalls :
        pc # "crashed" =>
            /\ StepsOf(k) = [n \in 1..Len(StepsOf(k)) |-> n]
            /\ FetchedAll(k) => Len(StepsOf(k)) = LastStep

\* a run fetched both items of its dataset in full
C22_Witness ==
    /\ pc = "append"
    /\ i = 1
    /\ FetchedAll(0)
    /\ FetchedAll(1)
    /\ StepsOf(1) = <<1, 2, 3, 4>>

\* the process stands behind item k: at the loop head after it, or dead in it
Behind(k) == (pc = "loop" /\ i = k + 1) \/ (pc = "died" /\ i = k)

\* C25: within a run the first call of an item is made at most once, and once
\* the process is through with an item whose fetch raised, the state file holds
\* the id of that item (in a directory that held no state file).
C25_NoRetryFailedItemAdvances ==
    /\ \A k \in remoteCalls :
           pc # "crashed" =>
               Cardinality({n \in CallsOf(k) : calls[n][3] = 1}) <= 1
    /\ \A f \in failed :
           (fresh /\ Behind(f[1])) =>
               Holds(stateFile, repos_to_crawl[f[1] + 1].id)

\* the segments of a reference between its slashes, the empty ones dropped
Segments(url) == SelectSeq(Split(url), LAMBDA seg : seg # <<>>)

\* the segments behind the scheme: the host, then the path
AfterScheme(url) ==
    IF Segments(url) # <<>> /\ Head(Segments(url)) = <<"https:">>
    THEN Tail(Segments(url)) ELSE Segments(url)

HostOf(url) == IF AfterScheme(url) = <<>> THEN <<>> ELSE Head(AfterScheme(url))

PathSegments(url) ==
    IF AfterScheme(url) = <<>> THEN <<>> ELSE Tail(AfterScheme(url))

\* C23: an item with a reference of the expected host is accepted only when
\* its path has exactly two segments, and the owner and the name it is fetched
\* with are the first and the second of them.
C23_OwnerAndNameAreThePath ==
    pc \in InItem =>
        LET url == repos_to_crawl[i + 1].url
        IN HostOf(url) = <<Host>> =>
               /\ Len(PathSegments(url)) = 2
               /\ result_data.owner = PathSegments(url)[1]
               /\ result_data.repo_name = PathSegments(url)[2]

\* C24: an item is accepted only when the host of its reference is github.com;
\* github.com in a path segment or inside another host name does not count.
C24_OnlyExpectedHostAccepted ==
    pc \in InItem => HostOf(repos_to_crawl[i + 1].url) = <<Host>>

\* C26: once the input file has been read, the loaded items are exactly the
\* lines that parse, in the order of the file, a warning was printed for each
\* of the others, and no unparsable line has stopped the run.
C26_LoadSkipsUnparsableLines ==
    inputFile[1] = "lines" =>
        /\ fatal # "load"
        /\ pc \in ({"resume"} \cup AfterResume) =>
               /\ repos_to_crawl = SelectSeq(inputFile[2], Parses)
               /\ warned = SelectSeq(inputFile[2], LAMBDA line : ~Parses(line))

\* a file of an unparsable line and an item behind it was loaded: the item is
\* the dataset and the run has dispatched it
C26_Witness ==
    /\ pc = "fetch"
    /\ inputFile[1] = "lines"
    /\ Len(inputFile[2]) = 2
    /\ ~Parses(inputFile[2][1])
    /\ repos_to_crawl = <<inputFile[2][2]>>
    /\ Len(warned) = 1

\* the counts the scores are computed from are numbers
Counted(row) ==
    /\ row.total_commits_count # NaN
    /\ row.recent_commits_count # NaN
    /\ row.stargazers_count # NaN

\* C27: for every scored row whose counts are non-negative numbers the
\* contribution score and the activity score lie in [0, 50] (in hundredths:
\* 0..5000) and the total is their sum: exactly as calculate_scores returns
\* it, and within a hundredth after the three roundings.
C27_ScoresInRange ==
    \A n \in 1..Len(scored_records) :
        Counted(df[n]) =>
            LET rec == scored_records[n]
                scores == calculate_scores(df[n])
                sum == rec.contribution_score[1] + rec.activity_score[1]
            IN /\ rec.contribution_score[1] \in 0..5000
               /\ rec.activity_score[1] \in 0..5000
               /\ ~Less(scores[1], Frac(0, 1)) /\ ~Less(Frac(50, 1), scores[1])
               /\ ~Less(scores[2], Frac(0, 1)) /\ ~Less(Frac(50, 1), scores[2])
               /\ scores[3] = Plus(scores[1], scores[2])
               /\ rec.total_score[1] \in (sum - 1)..(sum + 1)

\* a record with every part at its cap was scored 50, 50 and 100
C27_Witness ==
    /\ Len(scored_records) = 1
    /\ df[1].total_commits_count = Frac(max_commits, 1)
    /\ Len(df[1].contributor_list) = max_contributors
    /\ scored_records[1].contribution_score = <<5000>>
    /\ scored_records[1].activity_score = <<5000>>
    /\ scored_records[1].total_score = <<10000>>

\* the run stands before line 168: the loop is over and line 165 has passed
AtCleanup == pc = "loop" /\ i >= Len(repos_to_crawl) /\ repo_id # <<>>

\* C28: whenever the condition of line 168 is true where the run evaluates
\* it, this run has saved the checkpoint at least once and the file exists,
\* and no run has died at line 169.
C28_RemovalFindsFile ==
    /\ (AtCleanup /\ SweepOver) =>
           /\ processed_count >= 1
           /\ Exists(stateFile)
           /\ IntOf(Strip(stateFile.text)) = repo_id
    /\ ~(pc = "died" /\ i >= Len(repos_to_crawl) /\ repo_id # <<>>)

\* a run that resumed behind the first item stands before the removal with
\* the condition true
C28_Witness ==
    /\ AtCleanup
    /\ SweepOver
    /\ start_index >= 1
    /\ processed_count >= 1

\* the run went through the loop to its end and on to the completion report
PastLoop == pc = "done" \/ (pc = "died" /\ i >= Len(repos_to_crawl))

\* no item from the resume offset to the last one is rejected by the resolver
NoSkipInRange ==
    \A k \in (start_index + 1)..Len(repos_to_crawl) :
        ~Rejected(repos_to_crawl[k])

\* C29: a run that iterated to the end of the dataset has removed the state
\* file exactly when the resolver skipped no item from the resume offset to
\* the last item.
C29_RemovedIffNoSkipInRange == PastLoop => (cleared <=> NoSkipInRange)

\* the records this run has appended to the log
Appended == Len(log) - logMark

\* C30: at the head of the loop of a run that has appended a record, the
\* state file holds the id of the last record of the log and processed_count
\* is the number of records the run has appended.
C30_CheckpointIsLastRecord ==
    (pc = "loop" /\ Appended >= 1) =>
        /\ IntOf(Strip(stateFile.text)) = <<log[Len(log)].id>>
        /\ processed_count = Appended

\* the loop head behind a skipped item that follows an appended record, in a
\* run that found records of an earlier run in the log
C30_Witness ==
    /\ pc = "loop"
    /\ Appended = 1
    /\ logMark >= 1
    /\ i >= 2
    /\ Rejected(repos_to_crawl[i])
    /\ Holds(stateFile, repos_to_crawl[i - 1].id)

\* the steps of item k whose remote call returned: each is followed by its
\* time.sleep(1)
Succeeded(k) ==
    {calls[n][3] : n \in {m \in 1..Len(calls) :
                              calls[m][1] = "sleep" /\ calls[m][2] = k}}

\* the positions in the dataset of the items with the id
ItemsWithId(id) ==
    {k \in 0..(Len(repos_to_crawl) - 1) :
        HasId(repos_to_crawl[k + 1]) /\ repos_to_crawl[k + 1].id = id}

\* C31: in every record the running process has appended the error field is
\* null exactly when the four fetch steps of its item all succeeded, and in
\* every record of the log a non-null error goes with a null
\* total_commits_count.
C31_ErrorIffStepFailed ==
    /\ \A n \in (logMark + 1)..Len(log) :
           \A k \in ItemsWithId(log[n].id) :
               (log[n].error = Null) <=> (Succeeded(k) = 1..LastStep)
    /\ \A n \in 1..Len(log) :
           log[n].error # Null => log[n].total_commits_count = Null

\* one run has appended a record without error after four steps and a record
\* whose call of the last step raised
C31_Witness ==
    /\ Len(log) = 2
    /\ logMark = 0
    /\ pc = "loop"
    /\ log[1].error = Null
    /\ log[1].total_commits_count # Null
    /\ Succeeded(0) = 1..LastStep
    /\ log[2].error # Null
    /\ log[2].recent_commits_count # Null
    /\ Succeeded(1) = 1..(LastStep - 1)

\* this invocation follows one that reached the end of the script and removed
\* the state file, and it has computed its resume offset
Rerun == prevEnd = "done" /\ prevCleared /\ pc \in AfterResume

\* the resolvable items this invocation is through with
PassedResolvable ==
    {k \in 0..(i - 1) : Resolvable(repos_to_crawl[k + 1])}

====
